---- MODULE Spec2Model ----
(***************************************************************************)
(* The source interface (source_app/main.py) and the pending-source reaper *)
(* (management/sources.py) of SecureDrop, as one state machine over the    *)
(* shared Identity Store, the storage directory, the GPG keyring and one   *)
(* browser session.                                                        *)
(***************************************************************************)
EXTENDS Integers, Sequences, FiniteSets, Bags, TLC

\* ------------------------------------------------------------------ bounds
MaxSources == 2      \* primary keys the store hands out
NumCodenames == 2    \* distinct codenames
NumTabs == 2         \* /generate requests (one fresh tab_id each)
NumReqs == 2         \* /submit requests
MaxKeep == 1         \* largest --keep-most-recent
NumFilenames == 2    \* distinct reply filenames
MaxReplies == 2      \* replies the journalists send
MaxFaults == 1       \* reply files that stop being readable

Ids == 1..MaxSources
Codenames == 1..NumCodenames
Tabs == 1..NumTabs
Reqs == 1..NumReqs
Filenames == 1..NumFilenames

\* A session key that is absent (session.get(...) finds nothing).
NoCodename == 0

VARIABLES
    sources,      \* Source table: id -> row
    nextId,       \* next primary key of the Source table
    submissions,  \* Submission table: bag of rows (source, seq, kind)
    files,        \* submission files on disk
    keys,         \* filesystem_ids that have a key pair in the keyring
    now,          \* clock read by datetime.utcnow()
    session,      \* the browser's session
    gen,          \* the /generate requests, one per tab
    reqs,         \* the /submit requests
    reaper,       \* the remove_pending_sources process
    hist,         \* what the latest reaper runs did (history, in no guard)
    replies,      \* Reply table and reply files: <<source id, filename>> -> row
    look,         \* the /lookup request
    resp          \* the response the browser got last

vars == <<sources, nextId, submissions, files, keys, now, session, gen, reqs,
          reaper, hist, replies, look, resp>>

\* ------------------------------------------------------------- pure helpers

\* crypto_util.hash_codename: one-way and collision-free on the codenames used.
HashCodename(c) == (7 * c) % 11

\* Source(filesystem_id, ...): a new row is pending and has no interaction.
NewSource(fsid) ==
    [filesystem_id |-> fsid, pending |-> TRUE, interaction_count |-> 0,
     last_updated |-> 0]

\* The ids of the rows with this filesystem_id.
SourcesWith(fsid) == {s \in DOMAIN sources : sources[s].filesystem_id = fsid}

\* The store with one more row (db.session.add + commit).
Insert(row) == [s \in DOMAIN sources \cup {nextId} |->
                   IF s = nextId THEN row ELSE sources[s]]

\* The store without row s (db.session.delete + commit).
DeleteRow(s) == [t \in DOMAIN sources \ {s} |-> sources[t]]

Max(S) == CHOOSE x \in S : \A y \in S : y <= x

Min(S) == CHOOSE x \in S : \A y \in S : x <= y

\* A query that orders by id without desc(): lowest first.
RECURSIVE Ascending(_)
Ascending(S) == IF S = {} THEN <<>> ELSE <<Min(S)>> \o Ascending(S \ {Min(S)})

\* The ids of S, highest first (order_by(Source.id.desc())).
RECURSIVE Descending(_)
Descending(S) == IF S = {} THEN <<>> ELSE <<Max(S)>> \o Descending(S \ {Max(S)})

\* .offset(k): the sequence without its first k elements.
Offset(seq, k) == IF k >= Len(seq) THEN <<>> ELSE SubSeq(seq, k + 1, Len(seq))

\* Source.query.filter_by(pending=True)
PendingIds == {s \in DOMAIN sources : sources[s].pending}

\* find_pending_sources: the rows as they are read, each a detached copy.
FindPendingSources(keep_most_recent) ==
    LET ids == Offset(Descending(PendingIds), keep_most_recent)
    IN  [k \in 1..Len(ids) |->
            [id |-> ids[k], filesystem_id |-> sources[ids[k]].filesystem_id,
             pending |-> sources[ids[k]].pending]]

\* ------------------------------------------------------------------- Init

EmptySession ==
    [codenames |-> <<>>, codename |-> NoCodename, logged_in |-> FALSE,
     token |-> FALSE, new_user |-> FALSE]

IdleGen == [pc |-> "idle", codenames |-> <<>>, codename |-> NoCodename]

\* source: the id of g.source; count: g.source.interaction_count; before: the
\* counter as the request read it; fnames: the units saved, in order.
IdleReq ==
    [pc |-> "idle", source |-> 0, msg |-> FALSE, fh |-> FALSE, count |-> 0,
     before |-> 0, first |-> FALSE, fnames |-> <<>>, flashed |-> FALSE]

IdleReaper ==
    [pc |-> "idle", n |-> 0, cands |-> <<>>, i |-> 1, status |-> -1]

\* rows, start: the ids and the pending ids when the run read its candidates;
\* quiet: no create or
\* submit has committed since; missing, failed: the candidates that had no key
\* pair, whose delete raised; again: the run before had the same n and no create
\* or submit has committed since it began; prevFailed: a delete of the run
\* before raised.
NoHist ==
    [quiet |-> TRUE, rows |-> {}, start |-> {}, missing |-> {}, failed |-> {},
     again |-> FALSE, prevFailed |-> FALSE]

\* source, token: g.source and session["token"] as the request has them; inbox:
\* the rows the query returned; i: the position of the loop; replies: the
\* replies appended so far, each with its date; logged: the replies an error
\* was logged for.
IdleLook ==
    [pc |-> "idle", source |-> 0, token |-> FALSE, inbox |-> <<>>, i |-> 1,
     replies |-> <<>>, logged |-> {}]

\* op: the route; status: "page" (a page is rendered), "to_lookup" and
\* "to_index" (a redirect), "error" (the request is aborted); arg: the form's
\* tab_id, codename or reply_filename; tick: flips with every response.
NoResp == [op |-> "none", status |-> "none", arg |-> 0, tick |-> FALSE]

\* The response of a request.
Response(op, status, arg) ==
    [op |-> op, status |-> status, arg |-> arg, tick |-> ~resp.tick]

Init ==
    /\ sources = <<>>
    /\ nextId = 1
    /\ submissions = EmptyBag
    /\ files = {}
    /\ keys = {}
    /\ now = 1
    /\ session = EmptySession
    /\ gen = [t \in Tabs |-> IdleGen]
    /\ reqs = [r \in Reqs |-> IdleReq]
    /\ reaper = IdleReaper
    /\ hist = NoHist
    /\ replies = <<>>
    /\ look = IdleLook
    /\ resp = NoResp

\* What a committed create or submit does to the history: the run is not quiet.
Traffic == [hist EXCEPT !.quiet = FALSE]

\* ------------------------------------------------------- /generate (l. 34-55)

\* logged_in(): the session is logged in.
LoggedIn == session.logged_in

\* generate_unique_codename: a codename no Source row has yet.
UniqueCodenames == {c \in Codenames : SourcesWith(HashCodename(c)) = {}}

\* The request starts: a logged-in session is redirected; otherwise the request
\* reads the session's codenames map (session.get('codenames', {})).
GenerateBegin(t) ==
    /\ gen[t].pc = "idle"
    /\ gen' = [gen EXCEPT ![t] =
                 IF LoggedIn THEN [IdleGen EXCEPT !.pc = "redirected"]
                 ELSE [IdleGen EXCEPT !.pc = "read",
                                      !.codenames = session.codenames]]
    /\ resp' = IF LoggedIn THEN Response("generate", "to_lookup", t) ELSE resp
    /\ UNCHANGED <<sources, nextId, submissions, files, keys, now, session,
                   reqs, reaper, hist, replies, look>>

\* The map the request writes back: the one it read, with its own entry added.
Bind(codenames, t, c) ==
    [u \in DOMAIN codenames \cup {t} |-> IF u = t THEN c ELSE codenames[u]]

\* codenames[tab_id] = codename; session['codenames'] = codenames;
\* session['new_user'] = True; the page shows codename and tab_id.
GenerateEnd(t, c) ==
    /\ gen[t].pc = "read"
    /\ c \in UniqueCodenames
    /\ session' = [session EXCEPT !.codenames = Bind(gen[t].codenames, t, c),
                                  !.new_user = TRUE]
    /\ gen' = [gen EXCEPT ![t] = [IdleGen EXCEPT !.pc = "shown", !.codename = c]]
    /\ resp' = Response("generate", "page", t)
    /\ UNCHANGED <<sources, nextId, submissions, files, keys, now, reqs,
                   reaper, hist, replies, look>>

\* --------------------------------------------------------- /create (l. 57-106)

\* l. 59-62: already logged in: a flash and the redirect, nothing else.
CreateLoggedIn ==
    /\ session.logged_in
    /\ resp' = Response("create", "to_lookup", 0)
    /\ UNCHANGED <<sources, nextId, submissions, files, keys, now, session, gen,
                   reqs, reaper, hist, replies, look>>

\* l. 64-65: request.form['tab_id'] is not a key of session['codenames']
\* (KeyError): the request is aborted.
CreateUnknownTab(t) ==
    /\ ~session.logged_in
    /\ t \notin DOMAIN session.codenames
    /\ resp' = Response("create", "error", t)
    /\ UNCHANGED <<sources, nextId, submissions, files, keys, now, session, gen,
                   reqs, reaper, hist, replies, look>>

\* A create that releases the entry of its own tab only.
ResolvedKeepsOthers(t) ==
    [session EXCEPT !.codename = session.codenames[t],
                    !.codenames = [u \in DOMAIN session.codenames \ {t} |->
                                      session.codenames[u]]]

\* l. 66-68: the session takes the tab's codename and drops the whole mapping.
Resolved(t) ==
    [session EXCEPT !.codename = session.codenames[t], !.codenames = <<>>]

\* The tab has posted its form to /create.
Posted(t) == [gen EXCEPT ![t].pc = "posted"]

\* l. 72-81: Source(...) raises ValueError: flash and redirect to the index.
CreateValueError(t) ==
    /\ ~session.logged_in
    /\ t \in DOMAIN session.codenames
    /\ session' = Resolved(t)
    /\ gen' = Posted(t)
    /\ resp' = Response("create", "to_index", t)
    /\ UNCHANGED <<sources, nextId, submissions, files, keys, now, reqs,
                   reaper, hist, replies, look>>

\* A duplicate that leaves the session as the request has made it so far.
AfterDuplicateKeepsCodename(s) == s

\* l. 93-99: del session['codename']; del session['logged_in'] if it is there.
AfterDuplicate(s) == [s EXCEPT !.codename = NoCodename, !.logged_in = FALSE]

\* l. 83-101: the commit violates the unique constraint on filesystem_id: the
\* insert is rolled back and the request aborted (500).
CreateDuplicate(t) ==
    /\ ~session.logged_in
    /\ t \in DOMAIN session.codenames
    /\ SourcesWith(HashCodename(session.codenames[t])) # {}
    /\ session' = AfterDuplicate(Resolved(t))
    /\ gen' = Posted(t)
    /\ resp' = Response("create", "error", t)
    /\ UNCHANGED <<sources, nextId, submissions, files, keys, now, reqs,
                   reaper, hist, replies, look>>

\* l. 70-85: the row is committed.
CreateStore(fsid) ==
    /\ SourcesWith(fsid) = {}
    /\ nextId <= MaxSources
    /\ sources' = Insert(NewSource(fsid))
    /\ nextId' = nextId + 1
    /\ hist' = Traffic

\* l. 83-85, 103-105: the row is committed, the directory made, the session
\* logged in.
CreateOk(t) ==
    /\ ~session.logged_in
    /\ t \in DOMAIN session.codenames
    /\ CreateStore(HashCodename(session.codenames[t]))
    /\ session' = [Resolved(t) EXCEPT !.logged_in = TRUE]
    /\ gen' = Posted(t)
    /\ resp' = Response("create", "to_lookup", t)
    /\ UNCHANGED <<submissions, files, keys, now, reqs, reaper, replies, look>>

\* l. 83-85, 103: the row is committed and os.mkdir raises: the request ends
\* before session['logged_in'] = True.
CreateMkdirFail(t) ==
    /\ ~session.logged_in
    /\ t \in DOMAIN session.codenames
    /\ CreateStore(HashCodename(session.codenames[t]))
    /\ session' = Resolved(t)
    /\ gen' = Posted(t)
    /\ resp' = Response("create", "error", t)
    /\ UNCHANGED <<submissions, files, keys, now, reqs, reaper, replies, look>>

\* /create served to another browser, whose /generate showed it codename c.
OtherCreate(c) ==
    /\ CreateStore(HashCodename(c))
    /\ UNCHANGED <<submissions, files, keys, now, session, gen, reqs, reaper,
                   replies, look, resp>>

\* ---------------------------------------------------------- /login (l. 284-301)

\* valid_codename fails (or the form does not validate): the form is shown again.
LoginInvalid ==
    /\ resp' = Response("login", "page", 0)
    /\ UNCHANGED <<sources, nextId, submissions, files, keys, now, session, gen,
                   reqs, reaper, hist, replies, look>>

\* Source.login(codename): the row of the codename, made if there is none.
LoginStore(fsid) == IF SourcesWith(fsid) # {} THEN sources ELSE Insert(NewSource(fsid))

\* l. 288-294: the session is logged in under the codename and given a token.
Login(c) ==
    LET fsid == HashCodename(c) IN
    /\ SourcesWith(fsid) # {} \/ nextId <= MaxSources
    /\ session' = [session EXCEPT !.codename = c, !.logged_in = TRUE, !.token = TRUE]
    /\ sources' = LoginStore(fsid)
    /\ nextId' = IF SourcesWith(fsid) # {} THEN nextId ELSE nextId + 1
    /\ hist' = IF SourcesWith(fsid) # {} THEN hist ELSE Traffic
    /\ resp' = Response("login", "to_lookup", c)
    /\ UNCHANGED <<submissions, files, keys, now, gen, reqs, reaper, replies,
                   look>>

\* --------------------------------------------------------- /logout (l. 303-320)

\* A logout that removes the authentication keys only.
ClearAuth(s) ==
    [s EXCEPT !.codename = NoCodename, !.logged_in = FALSE, !.token = FALSE]

\* l. 314-315: session.clear(); only the locale is put back.
Clear(s) == EmptySession

\* The logout page and a cleared session when logged in; otherwise a redirect
\* to the index.
Logout ==
    /\ session' = IF LoggedIn THEN Clear(session) ELSE session
    /\ resp' = Response("logout", IF LoggedIn THEN "page" ELSE "to_index", 0)
    /\ UNCHANGED <<sources, nextId, submissions, files, keys, now, gen, reqs,
                   reaper, hist, replies, look>>

\* --------------------------------------------------------- /lookup (l. 108-156)

\* login_required: the session is logged in and its codename has a Source row.
SessionSource ==
    IF session.logged_in /\ session.codename # NoCodename
    THEN SourcesWith(HashCodename(session.codename)) ELSE {}

\* A query for the source's replies that does not filter on deleted_by_source.
AllReplies(s) == {k \in DOMAIN replies : k[1] = s}

\* l. 112-113 (and 269-270): the source's replies with deleted_by_source false.
Inbox(s) == {k \in DOMAIN replies : k[1] = s /\ ~replies[k].deleted_by_source}

\* .all(): the rows in an order the query does not fix.
Orderings(S) ==
    {q \in [1..Cardinality(S) -> S] : \A i, j \in DOMAIN q : i # j => q[i] # q[j]}

\* l. 111-113: the request has g.source and its session; the inbox is read.
LookupQuery ==
    /\ look.pc = "idle"
    /\ \E s \in SessionSource : \E inbox \in Orderings(Inbox(s)) :
          look' = [IdleLook EXCEPT !.pc = "loop", !.source = s,
                                  !.token = session.token, !.inbox = inbox]
    /\ UNCHANGED <<sources, nextId, submissions, files, keys, now, session, gen,
                   reqs, reaper, hist, replies, resp>>

\* The reply the loop is at.
Reply == look.inbox[look.i]

\* l. 120-130: the file is opened, read and decrypted. UnicodeDecodeError and
\* FileNotFoundError are logged and the loop goes on; any other error of
\* io.open or read is not caught and aborts the request.
LookupOpen ==
    LET file == replies[Reply].file IN
    /\ look.pc = "loop"
    /\ look.i <= Len(look.inbox)
    /\ look' = CASE file = "ok" -> [look EXCEPT !.pc = "stat"]
                 [] file \in {"garbled", "missing"} ->
                       [look EXCEPT !.i = @ + 1, !.logged = @ \cup {Reply}]
                 [] OTHER -> IdleLook
    /\ resp' = IF file \in {"ok", "garbled", "missing"} THEN resp
               ELSE Response("lookup", "error", 0)
    /\ UNCHANGED <<sources, nextId, submissions, files, keys, now, session, gen,
                   reqs, reaper, hist, replies>>

\* l. 131-134: the else branch: os.stat gives the date and the reply is
\* appended; os.stat of a file that is gone by now raises outside the try.
LookupStat ==
    LET there == replies[Reply].file # "missing" IN
    /\ look.pc = "stat"
    /\ look' = IF there
               THEN [look EXCEPT !.pc = "loop", !.i = @ + 1,
                                 !.replies = Append(@, [reply |-> Reply,
                                                        date |-> replies[Reply].mtime])]
               ELSE IdleLook
    /\ resp' = IF there THEN resp ELSE Response("lookup", "error", 0)
    /\ UNCHANGED <<sources, nextId, submissions, files, keys, now, session, gen,
                   reqs, reaper, hist, replies>>

\* x put into a sequence that is sorted by date, latest first, behind the
\* elements of its own date.
InsertByDate(x, sorted) ==
    LET n == Cardinality({j \in 1..Len(sorted) : sorted[j].date >= x.date})
    IN  SubSeq(sorted, 1, n) \o <<x>> \o SubSeq(sorted, n + 1, Len(sorted))

\* l. 137: replies.sort(key=date, reverse=True), a stable sort.
RECURSIVE SortByDate(_)
SortByDate(seq) ==
    IF seq = <<>> THEN <<>>
    ELSE InsertByDate(seq[Len(seq)], SortByDate(SubSeq(seq, 1, Len(seq) - 1)))

\* l. 137: the loop is over and the replies are sorted.
LookupSort ==
    /\ look.pc = "loop"
    /\ look.i > Len(look.inbox)
    /\ look' = [look EXCEPT !.pc = "sorted", !.replies = SortByDate(@)]
    /\ UNCHANGED <<sources, nextId, submissions, files, keys, now, session, gen,
                   reqs, reaper, hist, replies, resp>>

\* l. 139-156: a key pair is generated when the source has none, and the page
\* is rendered with the replies; session["token"] raises KeyError when the
\* session has no token.
LookupRender ==
    /\ look.pc = "sorted"
    /\ keys' = keys \cup {sources[look.source].filesystem_id}
    /\ resp' = Response("lookup", IF look.token THEN "page" ELSE "error", 0)
    /\ look' = IdleLook
    /\ UNCHANGED <<sources, nextId, submissions, files, now, session, gen, reqs,
                   reaper, hist, replies>>

\* ------------------------------------------- /delete, /delete-all (l. 247-282)

\* A query by filename that leaves out the source_id.
AnyReply(s, filename) == {k \in DOMAIN replies : k[2] = filename}

\* l. 255-257: filter_by(filename=..., source_id=g.source.id).
OwnReply(s, filename) == {k \in DOMAIN replies : k[1] = s /\ k[2] = filename}

\* The rows of hit with deleted_by_source = True, committed.
MarkDeleted(hit) ==
    [k \in DOMAIN replies |->
        IF k \in hit THEN [replies[k] EXCEPT !.deleted_by_source = TRUE]
        ELSE replies[k]]

\* l. 255-264: get_one_or_else aborts the request unless exactly one row is
\* found; the row found is marked.
Delete(filename) ==
    /\ \E s \in SessionSource :
          LET hit == OwnReply(s, filename) IN
          /\ replies' = IF Cardinality(hit) = 1 THEN MarkDeleted(hit) ELSE replies
          /\ resp' = Response("delete",
                        IF Cardinality(hit) = 1 THEN "to_lookup" ELSE "error",
                        filename)
    /\ UNCHANGED <<sources, nextId, submissions, files, keys, now, session, gen,
                   reqs, reaper, hist, look>>

\* l. 269-282: every reply of the inbox is marked; an empty inbox is logged.
BatchDelete ==
    /\ \E s \in SessionSource : replies' = MarkDeleted(Inbox(s))
    /\ resp' = Response("delete-all", "to_lookup", 0)
    /\ UNCHANGED <<sources, nextId, submissions, files, keys, now, session, gen,
                   reqs, reaper, hist, look>>

\* ------------------------------------------------ the journalists, the disk

\* A journalist replies to source s: a Reply row and its file, under a filename
\* the source's replies do not have yet.
JournalistReply(s, filename) ==
    LET k == <<s, filename>> IN
    /\ s \in DOMAIN sources
    /\ k \notin DOMAIN replies
    /\ Cardinality(DOMAIN replies) < MaxReplies
    /\ replies' = [j \in DOMAIN replies \cup {k} |->
                      IF j = k
                      THEN [deleted_by_source |-> FALSE, file |-> "ok",
                            mtime |-> Cardinality(DOMAIN replies) + 1]
                      ELSE replies[j]]
    /\ UNCHANGED <<sources, nextId, submissions, files, keys, now, session, gen,
                   reqs, reaper, hist, look, resp>>

\* A reply file stops being readable: its content is no longer valid
\* ("garbled"), it is removed ("missing") or it cannot be opened ("denied").
FileFault(k, fault) ==
    /\ k \in DOMAIN replies
    /\ replies[k].file = "ok"
    /\ Cardinality({j \in DOMAIN replies : replies[j].file # "ok"}) < MaxFaults
    /\ fault \in {"garbled", "missing", "denied"}
    /\ replies' = [replies EXCEPT ![k].file = fault]
    /\ UNCHANGED <<sources, nextId, submissions, files, keys, now, session, gen,
                   reqs, reaper, hist, look, resp>>

\* /lookup served to another browser, logged in as source s.
OtherLookup(s) ==
    /\ s \in DOMAIN sources
    /\ keys' = keys \cup {sources[s].filesystem_id}
    /\ UNCHANGED <<sources, nextId, submissions, files, now, session, gen,
                   reqs, reaper, hist, replies, look, resp>>

\* --------------------------------------------------------- /submit (l. 158-245)

\* Requests are numbered in the order they arrive.
Arrives(r) ==
    /\ reqs[r].pc = "idle"
    /\ \A q \in Reqs : q < r => reqs[q].pc # "idle"

\* l. 169-182: "empty" submission: a flash and the redirect, nothing stored.
SubmitEmpty(r, s) ==
    /\ Arrives(r)
    /\ s \in DOMAIN sources
    /\ reqs' = [reqs EXCEPT ![r] = [IdleReq EXCEPT !.pc = "rejected"]]
    /\ UNCHANGED <<sources, nextId, submissions, files, keys, now, session,
                   gen, hist, reaper, replies, look, resp>>

\* l. 193-194, 201-202: interaction_count += 1 for a unit that is present.
Increment(count, present) == IF present THEN count + 1 ELSE count

\* A submit that names each unit by the counter as it was before the increment.
FnamesBeforeIncrement(count, msg, fh) ==
    (IF msg THEN <<[seq |-> count, kind |-> "msg"]>> ELSE <<>>) \o
    (IF fh THEN <<[seq |-> Increment(count, msg), kind |-> "doc"]>> ELSE <<>>)

\* l. 193-209: the units saved, message first, each under the counter as it is
\* after its own increment.
Fnames(count, msg, fh) ==
    (IF msg THEN <<[seq |-> Increment(count, msg), kind |-> "msg"]>> ELSE <<>>) \o
    (IF fh THEN <<[seq |-> Increment(Increment(count, msg), fh), kind |-> "doc"]>>
     ELSE <<>>)

\* l. 160-234: g.source is the row as the request read it; the submission has a
\* message, a file (when uploads are allowed) or both; the units are saved to disk under their sequence
\* numbers, the success message is flashed and the Submission rows are added to
\* the transaction.
SubmitBegin(r, s, msg, upload, allow) ==
    LET fh == allow /\ upload
        before == sources[s].interaction_count
        fnames == Fnames(before, msg, fh)
    IN  /\ Arrives(r)
        /\ s \in DOMAIN sources
        /\ msg \/ fh
        /\ files' = files \cup
              {[source |-> s, seq |-> fnames[k].seq, kind |-> fnames[k].kind] :
                 k \in 1..Len(fnames)}
        /\ reqs' = [reqs EXCEPT ![r] =
                      [pc |-> "committing", source |-> s, msg |-> msg, fh |-> fh,
                       count |-> Increment(Increment(before, msg), fh),
                       before |-> before, first |-> (before = 0),
                       fnames |-> fnames, flashed |-> TRUE]]
        /\ UNCHANGED <<sources, nextId, submissions, keys, now, session, gen, hist,
                       reaper, replies, look, resp>>

\* A submit that leaves pending as it is.
CommittedKeepsPending(row, count) ==
    [row EXCEPT !.interaction_count = count, !.last_updated = now]

\* A submit that flips pending instead of clearing it.
CommittedTogglesPending(row, count) ==
    [row EXCEPT !.interaction_count = count, !.pending = ~row.pending,
                !.last_updated = now]

\* l. 236-237 as the commit writes them: the counter the request computed,
\* pending False, last_updated the time of the request.
Committed(row, count) ==
    [row EXCEPT !.interaction_count = count, !.pending = FALSE, !.last_updated = now]

\* l. 230-238: the Submission rows and the Source's new fields are committed.
SubmitCommit(r) ==
    LET q == reqs[r] IN
    /\ q.pc = "committing"
    /\ q.source \in DOMAIN sources
    /\ sources' = [sources EXCEPT ![q.source] = Committed(@, q.count)]
    /\ submissions' = submissions (+) SetToBag(
          {[source |-> q.source, seq |-> q.fnames[k].seq, kind |-> q.fnames[k].kind] :
             k \in 1..Len(q.fnames)})
    /\ now' = now + 1
    /\ reqs' = [reqs EXCEPT ![r] = [IdleReq EXCEPT !.pc = "done"]]
    /\ hist' = Traffic
    /\ UNCHANGED <<nextId, files, keys, session, gen, reaper, replies, look, resp>>

\* l. 238: db.session.commit() raises (the row is gone, or the database fails):
\* the transaction is rolled back and the request ends with an error.
SubmitCommitFail(r) ==
    /\ reqs[r].pc = "committing"
    /\ reqs' = [reqs EXCEPT ![r] = [IdleReq EXCEPT !.pc = "failed"]]
    /\ UNCHANGED <<sources, nextId, submissions, files, keys, now, session,
                   gen, hist, reaper, replies, look, resp>>

\* ------------------------------------- remove_pending_sources (sources.py)

Candidate == reaper.cands[reaper.i]

\* l. 15-17: the candidates are read; the loop starts at the first.
ReaperFind(n) ==
    /\ reaper.pc \in {"idle", "done"}
    /\ reaper' = [pc |-> "loop", n |-> n, cands |-> FindPendingSources(n), i |-> 1,
                  status |-> -1]
    /\ hist' = [quiet |-> TRUE, rows |-> DOMAIN sources, start |-> PendingIds,
                missing |-> {}, failed |-> {},
                again |-> (reaper.pc = "done" /\ reaper.n = n /\ hist.quiet),
                prevFailed |-> (hist.failed # {})]
    /\ UNCHANGED <<sources, nextId, submissions, files, keys, now, session,
                   gen, reqs, replies, look, resp>>

\* l. 21-24: the candidate's key pair is deleted; GpgKeyNotFoundError (no key
\* pair) is passed over.
DeleteSourceKeyPair(fsid) == keys \ {fsid}

\* The history after the key step: a candidate without a key pair is noted.
NoteKey == IF Candidate.filesystem_id \in keys THEN hist
           ELSE [hist EXCEPT !.missing = @ \cup {Candidate.id}]

\* A delete that is never committed.
DeleteNothing(source) == sources

\* delete_pending_source, l. 51-55: the row is deleted when the candidate, as it
\* was read, is pending.
DeletePendingSource(source) ==
    IF source.pending THEN DeleteRow(source.id) ELSE sources

\* l. 20-26 for one candidate, the delete committed: on to the next candidate.
ReaperDelete ==
    /\ reaper.pc = "loop"
    /\ reaper.i <= Len(reaper.cands)
    /\ keys' = DeleteSourceKeyPair(Candidate.filesystem_id)
    /\ sources' = DeletePendingSource(Candidate)
    /\ hist' = NoteKey
    /\ reaper' = [reaper EXCEPT !.i = @ + 1]
    /\ UNCHANGED <<nextId, submissions, files, now, session, gen, reqs, replies, look, resp>>

\* An exception that ends the run with an error status.
AbortRun == [reaper EXCEPT !.pc = "done", !.status = 1]

\* What an exception in the delete or its commit does to the loop (l. 56-58:
\* rollback, the error is printed): on to the next candidate.
AfterFailure == [reaper EXCEPT !.i = @ + 1]

\* l. 20-26 for one candidate, the delete or its commit raising.
ReaperDeleteFail ==
    /\ reaper.pc = "loop"
    /\ reaper.i <= Len(reaper.cands)
    /\ Candidate.pending
    /\ keys' = DeleteSourceKeyPair(Candidate.filesystem_id)
    /\ hist' = [NoteKey EXCEPT !.failed = @ \cup {Candidate.id}]
    /\ reaper' = AfterFailure
    /\ UNCHANGED <<sources, nextId, submissions, files, now, session, gen,
                   reqs, replies, look, resp>>

\* l. 28-29: the loop is over: the count is printed and 0 returned.
ReaperFinish ==
    /\ reaper.pc = "loop"
    /\ reaper.i > Len(reaper.cands)
    /\ reaper' = [reaper EXCEPT !.pc = "done", !.status = 0]
    /\ UNCHANGED <<sources, nextId, submissions, files, keys, now, session,
                   gen, reqs, hist, replies, look, resp>>

\* ------------------------------------------------------------ specification

\* The store and the processes that share it: accounts are created and logged
\* in, key pairs provisioned, submissions taken in and pending sources reaped.
Next ==
    \/ \E c \in Codenames : OtherCreate(c)
    \/ \E s \in Ids : OtherLookup(s)
    \/ \E r \in Reqs, s \in Ids : SubmitEmpty(r, s)
    \/ \E r \in Reqs, s \in Ids, msg, upload, allow \in BOOLEAN :
          SubmitBegin(r, s, msg, upload, allow)
    \/ \E r \in Reqs : SubmitCommit(r)
    \/ \E r \in Reqs : SubmitCommitFail(r)
    \/ \E n \in 0..MaxKeep : ReaperFind(n)
    \/ ReaperDelete
    \/ ReaperDeleteFail
    \/ ReaperFinish

Spec == Init /\ [][Next]_vars

\* The operations that write Source rows: create, login, submit and reap.
NextOps ==
    \/ \E c \in Codenames : OtherCreate(c)
    \/ \E c \in Codenames : Login(c)
    \/ \E r \in Reqs, s \in Ids : SubmitEmpty(r, s)
    \/ \E r \in Reqs, s \in Ids, msg, upload, allow \in BOOLEAN :
          SubmitBegin(r, s, msg, upload, allow)
    \/ \E r \in Reqs : SubmitCommit(r)
    \/ \E r \in Reqs : SubmitCommitFail(r)
    \/ \E n \in 0..MaxKeep : ReaperFind(n)
    \/ ReaperDelete
    \/ ReaperDeleteFail
    \/ ReaperFinish

SpecOps == Init /\ [][NextOps]_vars

\* One browser's session: its tabs, its account and its logins.
NextSession ==
    \/ \E t \in Tabs : GenerateBegin(t)
    \/ \E t \in Tabs, c \in Codenames : GenerateEnd(t, c)
    \/ CreateLoggedIn
    \/ \E t \in Tabs : CreateUnknownTab(t)
    \/ \E t \in Tabs : CreateValueError(t)
    \/ \E t \in Tabs : CreateDuplicate(t)
    \/ \E t \in Tabs : CreateOk(t)
    \/ \E t \in Tabs : CreateMkdirFail(t)
    \/ \E c \in Codenames : OtherCreate(c)
    \/ LoginInvalid
    \/ \E c \in Codenames : Login(c)
    \/ Logout
    \/ LookupQuery
    \/ LookupSort
    \/ LookupRender
    \/ \E r \in Reqs, s \in SessionSource : SubmitEmpty(r, s)

SpecSession == Init /\ [][NextSession]_vars

\* The reply inbox of the sources one browser logs in as.
NextInbox ==
    \/ \E c \in Codenames : Login(c)
    \/ Logout
    \/ \E s \in Ids, f \in Filenames : JournalistReply(s, f)
    \/ \E k \in Ids \X Filenames, fault \in {"garbled", "missing", "denied"} :
          FileFault(k, fault)
    \/ LookupQuery
    \/ LookupOpen
    \/ LookupStat
    \/ LookupSort
    \/ LookupRender
    \/ \E f \in Filenames : Delete(f)
    \/ BatchDelete

SpecInbox == Init /\ [][NextInbox]_vars

\* ------------------------------------------------------------------ claims

\* The request r commits in this step / fails at its commit in this step.
Commits(r) == reqs[r].pc = "committing" /\ reqs'[r].pc = "done"
FailsCommit(r) == reqs[r].pc = "committing" /\ reqs'[r].pc = "failed"

\* The number of rows of the Submission table with this source and sequence number.
RowsWith(s, n) ==
    LET hit == {x \in BagToSet(submissions) : x.source = s /\ x.seq = n}
        RECURSIVE Sum(_)
        Sum(S) == IF S = {} THEN 0
                  ELSE LET x == CHOOSE y \in S : TRUE
                       IN  CopiesIn(x, submissions) + Sum(S \ {x})
    IN  Sum(hit)

\* C1: the reaper removes a Source row only if the row's pending flag in the
\* store is true at the moment of the delete; a source whose submit has
\* committed is never hard-deleted.
C1_ReaperDeletesOnlyPending ==
    [][\A s \in DOMAIN sources : s \notin DOMAIN sources' => sources[s].pending]_vars

\* C2: in every committed state of the store, every Source row satisfies
\* pending == (interaction_count == 0).
C2_PendingIffNoInteraction ==
    \A s \in DOMAIN sources :
        sources[s].pending = (sources[s].interaction_count = 0)

\* C2 witness: a source that has submitted next to one that is still pending.
C2_Witness ==
    \E s, t \in DOMAIN sources :
        /\ ~sources[s].pending /\ sources[s].interaction_count > 1
        /\ sources[t].pending /\ sources[t].interaction_count = 0

\* The number of content units of a request.
Units(q) == (IF q.msg THEN 1 ELSE 0) + (IF q.fh THEN 1 ELSE 0)

\* C3: for every successful submit, interaction_count after the call is its
\* value before the call plus the number of units present (1 or 2), the
\* message has the lower sequence number and the file the higher, and the final
\* interaction_count is the largest sequence number a unit was saved under.
C3_SubmitAdvancesCounter ==
    [][\A r \in Reqs : Commits(r) =>
          LET q == reqs[r]
              after == sources'[q.source].interaction_count
          IN  /\ Units(q) \in {1, 2}
              /\ Len(q.fnames) = Units(q)
              /\ after = q.before + Units(q)
              /\ \A k \in 1..Len(q.fnames) : q.fnames[k].seq <= after
              /\ \E k \in 1..Len(q.fnames) : q.fnames[k].seq = after
              /\ q.msg => q.fnames[1] = [seq |-> q.before + 1, kind |-> "msg"]
              /\ q.fh => q.fnames[Len(q.fnames)] = [seq |-> after, kind |-> "doc"]
              /\ \A k \in 1..Len(q.fnames) :
                    BagIn([source |-> q.source, seq |-> q.fnames[k].seq,
                           kind |-> q.fnames[k].kind], submissions')]_vars

\* C3 witness: after a first message, a message and a file submitted together
\* are stored under 2 and 3 and the counter is 3.
C3_Witness ==
    \E s \in DOMAIN sources :
        /\ \A r \in Reqs : reqs[r].pc = "done"
        /\ sources[s].interaction_count = 3
        /\ BagIn([source |-> s, seq |-> 2, kind |-> "msg"], submissions)
        /\ BagIn([source |-> s, seq |-> 3, kind |-> "doc"], submissions)

\* C4: no two Submissions of one source are assigned the same sequence number,
\* also when the submit requests for it interleave.
C4_SequenceNumbersUnique ==
    \A x \in BagToSet(submissions) : RowsWith(x.source, x.seq) = 1

\* C5: if the commit at the end of submit fails, the store holds no Submission
\* row of the call, the Source row is as before, no submission file of the call
\* is left written and no success message has been flashed.
C5_FailedCommitLeavesNothing ==
    [][\A r \in Reqs : FailsCommit(r) =>
          /\ sources' = sources
          /\ submissions' = submissions
          /\ ~reqs[r].flashed
          /\ \A k \in 1..Len(reqs[r].fnames) :
                [source |-> reqs[r].source, seq |-> reqs[r].fnames[k].seq,
                 kind |-> reqs[r].fnames[k].kind] \notin files']_vars

\* C6: pending goes from true to false only at the commit of a submit for a
\* source that had no interaction yet, and a row whose pending is false never
\* has pending true again.
C6_PendingFlipsOnce ==
    [][\A s \in DOMAIN sources \cap DOMAIN sources' :
          /\ ~sources[s].pending => ~sources'[s].pending
          /\ (sources[s].pending /\ ~sources'[s].pending) =>
                /\ sources[s].interaction_count = 0
                /\ \E r \in Reqs : Commits(r) /\ reqs[r].source = s]_vars

\* C6 witness: a second submit has committed for a source that is not pending.
C6_Witness ==
    \E s \in DOMAIN sources :
        /\ ~sources[s].pending
        /\ \A r \in Reqs : reqs[r].pc = "done"
        /\ RowsWith(s, 1) = 1
        /\ RowsWith(s, 2) = 1

\* The n highest ids of S.
TopN(S, n) == {s \in S : Cardinality({t \in S : t > s}) < n}

\* The ids of the candidates of the run, and of those the loop has been through.
CandidateIds == {reaper.cands[k].id : k \in 1..Len(reaper.cands)}
ProcessedIds == {reaper.cands[k].id : k \in 1..(reaper.i - 1)}

\* The run is over, no create or submit committed during it, no delete raised.
CleanRun == reaper.pc = "done" /\ hist.quiet /\ hist.failed = {}

\* C7: a reaper run with keep_most_recent = N, no concurrent traffic and no
\* deletion failure removes exactly the pending sources that are not among the
\* N pending sources with the highest id; no source with pending = false is
\* ever a candidate.
C7_ReapsAllButNewest ==
    /\ reaper.pc # "idle" => CandidateIds \subseteq hist.start
    /\ CleanRun =>
          /\ hist.rows \ DOMAIN sources = hist.start \ TopN(hist.start, reaper.n)
          /\ DOMAIN sources \subseteq hist.rows
          /\ PendingIds = TopN(hist.start, reaper.n)

\* C7 witness: a clean run with N = 1 over two pending sources is over.
C7_Witness ==
    /\ CleanRun
    /\ reaper.n = 1
    /\ Cardinality(hist.start) = 2
    /\ Cardinality(DOMAIN sources) = 1

RunsToEnd ==
    /\ hist.failed \cup hist.missing \subseteq ProcessedIds
    /\ reaper.pc = "done" =>
          /\ reaper.status = 0
          /\ ProcessedIds = CandidateIds
    /\ \A id \in ProcessedIds : id \in hist.failed \/ id \notin DOMAIN sources

\* C9 as stated: a candidate without key material, or whose delete raised,
\* keeps its row; every later candidate is processed and the run ends with
\* status 0.
C9_FailureKeepsRow ==
    /\ \A id \in hist.missing \cup hist.failed : id \in DOMAIN sources
    /\ RunsToEnd

\* C9 amended: a candidate whose delete raised keeps its row; a candidate
\* without key material whose delete did not raise loses its row; every later
\* candidate is processed and the run ends with status 0.
C9_FailureIsolated ==
    /\ \A id \in hist.failed : id \in DOMAIN sources
    /\ \A id \in hist.missing \ hist.failed : id \notin DOMAIN sources
    /\ RunsToEnd

\* C9 witness: the run is over with status 0; the delete of its first candidate
\* raised and the second candidate, which had no key pair, is deleted.
C9_Witness ==
    /\ reaper.pc = "done" /\ reaper.status = 0
    /\ Len(reaper.cands) = 2
    /\ reaper.cands[1].id \in hist.failed
    /\ reaper.cands[2].id \in hist.missing \ hist.failed
    /\ reaper.cands[2].id \notin DOMAIN sources

\* The /generate request of tab u ends in this step.
Generates(u) == gen[u].pc = "read" /\ gen'[u].pc = "shown"

\* C10: the tab-to-codename mapping is additive: a /generate request, also one
\* that overlaps another, adds its own entry and leaves every other tab's entry
\* in the mapping; and /create with tab_id A takes the codename shown in tab A.
C10_MappingAdditive ==
    [][/\ \A u \in Tabs : Generates(u) =>
             /\ u \in DOMAIN session'.codenames
             /\ session'.codenames[u] = gen'[u].codename
             /\ \A t \in DOMAIN session.codenames :
                   /\ t \in DOMAIN session'.codenames
                   /\ session'.codenames[t] = session.codenames[t]
       /\ \A t \in Tabs :
             (gen[t].pc = "shown" /\ gen'[t].pc = "posted"
                /\ session'.codename # NoCodename) =>
             session'.codename = gen[t].codename]_vars

\* The step is the response to a request of this route.
Responds(op) == resp'.tick # resp.tick /\ resp'.op = op

\* The store: the tables, the submission files and the keyring.
Store == <<sources, nextId, submissions, files, keys, replies>>

\* The /create request of this step resolves its tab_id.
Resolves ==
    /\ Responds("create")
    /\ ~session.logged_in
    /\ resp'.arg \in DOMAIN session.codenames

\* The /create request of this step fails as a hard error that adds no Source
\* row and leaves the session as it was.
FailsHard ==
    /\ resp'.status = "error"
    /\ sources' = sources
    /\ session' = session

\* Only a /generate response adds entries to the mapping.
OnlyGenerateBinds ==
    DOMAIN session'.codenames \subseteq DOMAIN session.codenames
       \/ \E u \in Tabs : Generates(u)

\* C11 as stated: every create request either resolves its tab_id or fails as
\* a hard error without adding a Source row and without changing the session;
\* after a create that resolved its tab_id the session holds no mapping, and
\* only /generate binds again.
C11_CreateResolvesOrFails ==
    [][/\ Responds("create") =>
             IF Resolves THEN session'.codenames = <<>> ELSE FailsHard
       /\ OnlyGenerateBinds]_vars

\* C11 amended: the same for the create requests of a session that is not
\* logged in; a create request of a logged-in session resolves nothing,
\* changes neither the store nor the session and is redirected to lookup.
C11_CreateResolvesOrFailsUnlessLoggedIn ==
    [][/\ Responds("create") =>
             IF session.logged_in
             THEN /\ resp'.status = "to_lookup"
                  /\ sources' = sources
                  /\ session' = session
             ELSE IF Resolves THEN session'.codenames = <<>> ELSE FailsHard
       /\ OnlyGenerateBinds]_vars

\* C11 witness: a create has resolved its tab and logged the session in; the
\* mapping is gone although another tab was shown a codename and has not
\* posted it.
C11_Witness ==
    /\ resp.op = "create" /\ resp.status = "to_lookup" /\ resp.arg \in Tabs
    /\ session.logged_in
    /\ session.codenames = <<>>
    /\ \E u \in Tabs : gen[u].pc = "shown"

\* The /create request of this step resolves its tab_id to a codename whose
\* filesystem_id a Source row has, and a Source is constructed for it.
HitsDuplicate ==
    /\ Resolves
    /\ SourcesWith(HashCodename(session.codenames[resp'.arg])) # {}
    /\ resp'.status # "to_index"

\* C12: when create hits a unique-constraint violation on filesystem_id, the
\* store has the same Source rows as before, the session afterwards has
\* neither codename nor logged_in, and the request fails.
C12_DuplicateLogsNobodyIn ==
    [][HitsDuplicate =>
          /\ sources' = sources
          /\ session'.codename = NoCodename
          /\ ~session'.logged_in
          /\ resp'.status = "error"]_vars

\* C12 witness: the create of a tab has failed on a codename that has a Source
\* row, and the session has no codename and is not logged in.
C12_Witness ==
    /\ resp.op = "create" /\ resp.status = "error" /\ resp.arg \in Tabs
    /\ gen[resp.arg].pc = "posted"
    /\ SourcesWith(HashCodename(gen[resp.arg].codename)) # {}
    /\ session.codename = NoCodename
    /\ ~session.logged_in

\* C13: after create fails with a duplicate identity, after submit rejects an
\* empty submission and after login rejects an invalid codename, the session
\* (its mapping and its auth fields included) and the store are exactly as
\* they were before the operation.
C13_FailureLeavesStateUntouched ==
    [][(\/ HitsDuplicate
        \/ Responds("login") /\ resp'.status = "page"
        \/ \E r \in Reqs : reqs[r].pc = "idle" /\ reqs'[r].pc = "rejected")
       => /\ session' = session
          /\ Store' = Store]_vars

\* C14: /logout of a logged-in session leaves none of codename, token,
\* logged_in, new_user and the mapping in the session; /logout of a session
\* that is not logged in changes nothing in it and redirects to the index.
C14_LogoutClearsSession ==
    [][Responds("logout") =>
          IF session.logged_in
          THEN /\ session'.codename = NoCodename
               /\ ~session'.token
               /\ ~session'.logged_in
               /\ ~session'.new_user
               /\ session'.codenames = <<>>
               /\ resp'.status = "page"
          ELSE /\ session' = session
               /\ resp'.status = "to_index"]_vars

\* C14 witness: the session that made an account for a tab has logged out and
\* is empty.
C14_Witness ==
    /\ resp.op = "logout" /\ resp.status = "page"
    /\ \E t \in Tabs : gen[t].pc = "posted"
    /\ nextId > 1
    /\ session = EmptySession

\* The replies of a sequence of [reply, date] records.
Listed(seq) == {seq[j].reply : j \in DOMAIN seq}

\* The replies of the rows a lookup has read.
Queried(seq) == {seq[i] : i \in DOMAIN seq}

\* C15: once a Reply has deleted_by_source = true no operation sets it back to
\* false, and the reply is in the result of no lookup that starts later:
\* the rows a lookup reads leave it out, and a lookup lists only the rows it
\* has read.
C15_DeletedStaysDeleted ==
    [][/\ \A k \in DOMAIN replies :
             replies[k].deleted_by_source =>
                k \in DOMAIN replies' /\ replies'[k].deleted_by_source
       /\ (look.pc = "idle" /\ look'.pc # "idle") =>
             \A k \in Queried(look'.inbox) : ~replies[k].deleted_by_source
       /\ (look.pc # "idle" /\ look'.pc # "idle") => look'.inbox = look.inbox
       /\ Listed(look'.replies) \subseteq Queried(look'.inbox)]_vars

\* C15 witness: a lookup that started after one of the source's two replies
\* was deleted is about to render the other reply alone.
C15_Witness ==
    /\ look.pc = "sorted"
    /\ Len(look.replies) = 1
    /\ \E k \in AllReplies(look.source) :
          /\ replies[k].deleted_by_source
          /\ k \notin Queried(look.inbox)

\* The replies of other sources are as they were, and no row is added or gone.
OthersUntouched(s) ==
    /\ DOMAIN replies' = DOMAIN replies
    /\ \A k \in DOMAIN replies : k[1] # s => replies'[k] = replies[k]

\* C16: delete with a reply_filename that names no reply of the calling source
\* (also when another source has a reply of that name) is an error that
\* changes no Reply row; neither delete nor delete-all changes a Reply of a
\* source other than the caller.
C16_DeleteOwnRepliesOnly ==
    [][\A s \in SessionSource :
          /\ Responds("delete") =>
                /\ <<s, resp'.arg>> \notin DOMAIN replies =>
                      resp'.status = "error" /\ replies' = replies
                /\ OthersUntouched(s)
          /\ Responds("delete-all") => OthersUntouched(s)]_vars

\* C16 witness: a delete has failed on a filename that only a reply of another
\* source has, and that reply is not marked.
C16_Witness ==
    /\ resp.op = "delete" /\ resp.status = "error"
    /\ \E s \in SessionSource :
          /\ <<s, resp.arg>> \notin DOMAIN replies
          /\ \E k \in DOMAIN replies :
                k[1] # s /\ k[2] = resp.arg /\ ~replies[k].deleted_by_source

\* The dates of a sequence of [reply, date] records never go up.
LatestFirst(seq) == \A i, j \in DOMAIN seq : i < j => seq[i].date >= seq[j].date

\* C17: a read or decode failure of one reply's file excludes only that reply:
\* a lookup is not aborted, and what it renders is exactly the replies it has
\* read whose file was read and decrypted without failure, most recent first.
C17_ReadFailureExcludesOneReply ==
    [][/\ (look.pc # "idle" /\ look'.pc = "idle") => look.pc = "sorted"
       /\ look'.pc = "sorted" =>
             /\ Listed(look'.replies) = Queried(look'.inbox) \ look'.logged
             /\ LatestFirst(look'.replies)]_vars

\* C18: a session that is logged in holds a token.
C18_LoggedInHasToken == session.logged_in => session.token

\* C19: a session holds a codename only if it is logged in.
C19_CodenameOnlyIfLoggedIn == session.codename # NoCodename => session.logged_in

\* C20: after a reaper run, no Source row that is still in the store has had
\* its key pair deleted by the run.
C20_KeysDeletedOnlyWithRow ==
    reaper.pc = "done" =>
        \A id \in ProcessedIds \ hist.missing : id \notin DOMAIN sources

====
